---------------------------- MODULE Spec2Model ----------------------------
(***************************************************************************)
(* Galaxy SIA server: frame codec, per-connection handler, event chunking. *)
(*                                                                         *)
(* Bytes are the integers 0..255; a byte string is a sequence of bytes.    *)
(***************************************************************************)
EXTENDS Integers, Sequences, FiniteSets, TLC

(***************************************************************************)
(* Bounds of the model                                                     *)
(***************************************************************************)
\* longest payload enumerated exhaustively over PayloadBytes
MaxPayloadLen == 2
\* longest raw (unframed) input enumerated exhaustively over RawBytes
MaxRawLen == 3
\* most reads one connection performs before the peer closes
MaxReads == 3

\* capacity of the notification queue (configuration: 1..1000)
MAX_QUEUE_SIZE == 2

\* the positive retry limit that is tried next to 0, "no limit"
MaxRetriesBound == 1

\* calls of enqueue_notification in one run
MaxEvents == 3

\* minutes of clock time in one run
MaxMinutes == 1

\* largest retry_count given to get_retry_delay
MaxRetryCount == 10

(***************************************************************************)
(* galaxy/constants.py                                                     *)
(***************************************************************************)
COMMANDS ==
    (35 :> "ACCOUNT_ID") @@ (78 :> "NEW_EVENT") @@ (65 :> "ASCII") @@
    (48 :> "END_OF_DATA") @@ (56 :> "ACKNOWLEDGE") @@ (57 :> "REJECT") @@
    (49 :> "WAIT") @@ (50 :> "ABORT") @@ (54 :> "ACK_AND_STANDBY") @@
    (55 :> "ACK_AND_DISCONNECT") @@ (8 :> "ALT_ACKNOWLEDGE") @@
    (9 :> "ALT_REJECT") @@ (67 :> "CONTROL") @@ (69 :> "ENVIRONMENTAL") @@
    (79 :> "OLD_EVENT") @@ (80 :> "PROGRAM") @@ (64 :> "CONFIGURATION") @@
    (63 :> "REMOTE_LOGIN") @@ (38 :> "ORIGIN_ID") @@ (88 :> "EXTENDED") @@
    (76 :> "LISTEN_IN") @@ (86 :> "VCHN_REQUEST") @@ (118 :> "VCHN_FRAME") @@
    (73 :> "VIDEO")

CommandNames == {COMMANDS[b] : b \in DOMAIN COMMANDS}

\* {name: byte for byte, name in COMMANDS.items()}
COMMAND_BYTES ==
    [n \in CommandNames |-> CHOOSE b \in DOMAIN COMMANDS : COMMANDS[b] = n]

(***************************************************************************)
(* Byte arithmetic                                                         *)
(***************************************************************************)
RECURSIVE XorBits(_, _, _)
XorBits(a, b, n) ==
    IF n = 0 THEN 0
    ELSE ((a + b) % 2) + 2 * XorBits(a \div 2, b \div 2, n - 1)

\* Python's a ^ b on two bytes
Xor(a, b) == XorBits(a, b, 8)

\* s[lo] ^ ... ^ s[hi] (0 for an empty range).  ^ is associative, so the
\* range is split in halves, which keeps the evaluation shallow for blocks
\* of up to 255 bytes; the value is that of the left-to-right loop.
RECURSIVE XorRange(_, _, _)
XorRange(s, lo, hi) ==
    IF lo > hi THEN 0
    ELSE IF lo = hi THEN s[lo]
    ELSE LET mid == (lo + hi) \div 2
         IN  Xor(XorRange(s, lo, mid), XorRange(s, mid + 1, hi))

\* checksum = start; for byte in s: checksum ^= byte
XorLoop(start, s) == Xor(start, XorRange(s, 1, Len(s)))

\* s[lo-1:hi-1] in Python terms: the elements lo..hi of s (empty if lo > hi)
Slice(s, lo, hi) == [k \in 1..(IF hi >= lo THEN hi - lo + 1 ELSE 0) |-> s[lo + k - 1]]

(***************************************************************************)
(* sia-server.py: validate_and_strip                                       *)
(* The result is (command_byte, payload), or (None, None) with the         *)
(* warning that was logged.                                                *)
(***************************************************************************)
NoneResult(warning) ==
    [valid |-> FALSE, command_byte |-> -1, payload |-> <<>>, warning |-> warning]

validate_and_strip_checksum_first(data) ==
    LET declared_payload_length == data[1] - 64
        actual_payload_length   == Len(data) - 3
        expected_checksum       == data[Len(data)]
        message_to_check        == Slice(data, 1, Len(data) - 1)
        checksum                == XorLoop(255, message_to_check)
    IN  IF Len(data) < 3
        THEN NoneResult("too short")
        ELSE IF checksum # expected_checksum
        THEN NoneResult("checksum mismatch")
        ELSE IF declared_payload_length # actual_payload_length
        THEN NoneResult("length mismatch")
        ELSE [valid |-> TRUE, command_byte |-> data[2],
              payload |-> Slice(data, 3, Len(data) - 1), warning |-> "none"]

validate_and_strip_length_only(data) ==
    LET declared_payload_length == data[1] - 64
        actual_payload_length   == Len(data) - 3
    IN  IF Len(data) < 3
        THEN NoneResult("too short")
        ELSE IF declared_payload_length # actual_payload_length
        THEN NoneResult("length mismatch")
        ELSE [valid |-> TRUE, command_byte |-> data[2],
              payload |-> Slice(data, 3, Len(data) - 1), warning |-> "none"]

validate_and_strip(data) ==
    LET declared_payload_length == data[1] - 64
        actual_payload_length   == Len(data) - 3
        expected_checksum       == data[Len(data)]
        message_to_check        == Slice(data, 1, Len(data) - 1)
        checksum                == XorLoop(255, message_to_check)
    IN  IF Len(data) < 3
        THEN NoneResult("too short")
        ELSE IF declared_payload_length # actual_payload_length
        THEN NoneResult("length mismatch")
        ELSE IF checksum # expected_checksum
        THEN NoneResult("checksum mismatch")
        ELSE [valid |-> TRUE, command_byte |-> data[2],
              payload |-> Slice(data, 3, Len(data) - 1), warning |-> "none"]

(***************************************************************************)
(* sia-server.py: build_and_send                                           *)
(* final_message is the block written to the socket; bytes([...]) raises   *)
(* ValueError when the length byte does not fit in a byte.                 *)
(***************************************************************************)
final_message_no_offset(command, payload) ==
    LET command_byte   == COMMAND_BYTES[command]
        payload_length == Len(payload)
        length_byte    == payload_length
        message_part   == <<length_byte, command_byte>> \o payload
        checksum       == XorLoop(255, message_part)
    IN  IF length_byte > 255
        THEN [raised |-> TRUE, bytes |-> <<>>]
        ELSE [raised |-> FALSE, bytes |-> Append(message_part, checksum)]

final_message_no_length_in_checksum(command, payload) ==
    LET command_byte   == COMMAND_BYTES[command]
        payload_length == Len(payload)
        length_byte    == payload_length + 64
        message_part   == <<length_byte, command_byte>> \o payload
        checksum       == XorLoop(255, <<command_byte>> \o payload)
    IN  IF length_byte > 255
        THEN [raised |-> TRUE, bytes |-> <<>>]
        ELSE [raised |-> FALSE, bytes |-> Append(message_part, checksum)]

final_message(command, payload) ==
    LET command_byte   == COMMAND_BYTES[command]
        payload_length == Len(payload)
        length_byte    == payload_length + 64
        message_part   == <<length_byte, command_byte>> \o payload
        checksum       == XorLoop(255, message_part)
    IN  IF length_byte > 255
        THEN [raised |-> TRUE, bytes |-> <<>>]
        ELSE [raised |-> FALSE, bytes |-> Append(message_part, checksum)]


(***************************************************************************)
(* sia-server.py: handle_connection, the pieces of the read loop           *)
(***************************************************************************)
\* len(data) >= 2 and data[0:2] == b'\x05\x01'
is_encrypted_handshake_never(data) == FALSE

is_encrypted_handshake_first_byte(data) ==
    Len(data) >= 1 /\ data[1] = 5

is_encrypted_handshake_marker_alone(data) == data = <<5, 1>>

is_encrypted_handshake(data) ==
    Len(data) >= 2 /\ Slice(data, 1, 2) = <<5, 1>>

\* COMMANDS.get(command_byte, f'UNKNOWN(0x{command_byte:02x})')
command_name_of(command_byte) ==
    IF command_byte \in DOMAIN COMMANDS
    THEN COMMANDS[command_byte]
    ELSE "UNKNOWN(" \o ToString(command_byte) \o ")"

\* if command_name != 'END_OF_DATA': valid_blocks.append({...})
append_block_always(blocks, name, payload) ==
    Append(blocks, [command |-> name, payload |-> payload])

append_block(blocks, name, payload) ==
    IF name # "END_OF_DATA"
    THEN Append(blocks, [command |-> name, payload |-> payload])
    ELSE blocks

\* writer.write(final_message) of build_and_send; the calls of the handler
\* pass no payload
build_and_send_dropped(w, command) == w

build_and_send(w, command) == Append(w, final_message(command, <<>>).bytes)

(***************************************************************************)
(* sia-server.py: handle_connection, chunking of the collected blocks      *)
(***************************************************************************)
\* for block in valid_blocks: ...  (from block i on)
RECURSIVE chunk_loop(_, _, _, _)
chunk_loop(blocks, i, chunks, current_chunk) ==
    IF i > Len(blocks)
    THEN \* if current_chunk: event_chunks.append(current_chunk)
         IF current_chunk # <<>> THEN Append(chunks, current_chunk) ELSE chunks
    ELSE IF blocks[i].command = "ACCOUNT_ID" /\ current_chunk # <<>>
         THEN chunk_loop(blocks, i + 1, Append(chunks, current_chunk), <<blocks[i]>>)
         ELSE chunk_loop(blocks, i + 1, chunks, Append(current_chunk, blocks[i]))

assemble_chunks_from_second(blocks) == chunk_loop(blocks, 2, <<>>, <<>>)

assemble_chunks(blocks) == chunk_loop(blocks, 1, <<>>, <<>>)

(***************************************************************************)
(* galaxy/parser.py: parse_galaxy_event as handle_connection calls it.     *)
(* The handler passes a chunk of block dicts {'command', 'payload'};       *)
(* parse_galaxy_event hands messages[0] to parse_account_block, whose      *)
(* first statement data[:-1] slices a byte string and raises TypeError on  *)
(* a dict.  Nothing between that statement and the handler catches it.     *)
(***************************************************************************)
parse_galaxy_event(messages) ==
    IF Len(messages) >= 1
    THEN [raised |-> TRUE, account_raw |-> messages[1]]
    ELSE [raised |-> FALSE, account_raw |-> [command |-> "", payload |-> <<>>]]

(***************************************************************************)
(* notification.py: queue items                                            *)
(***************************************************************************)
\* the events are numbered in the order of the enqueue_notification calls
EventIds == 1..MaxEvents

\* None, the event of the item stop() puts
NoneEvent == [id |-> 0, account |-> "", event_code |-> FALSE,
              action_text |-> FALSE]

\* (event, retry_count, next_attempt_time)
Item(event, retry_count, next_attempt_time) ==
    [event |-> event, retry_count |-> retry_count,
     next_attempt_time |-> next_attempt_time]

NoJob == Item(NoneEvent, 0, 0)

(***************************************************************************)
(* State                                                                   *)
(***************************************************************************)
VARIABLES
    \* codec harness: one block built, carried and validated
    c_pc,          \* "init", "built", "received", "done", "error"
    c_command,     \* command name given to build_and_send
    c_payload,     \* payload given to build_and_send
    c_sent,        \* bytes build_and_send wrote
    c_how,         \* what happened to the bytes on the way: "intact", ...
    c_data,        \* bytes handed to validate_and_strip
    c_result,      \* what validate_and_strip returned
    \* one execution of handle_connection
    pc,            \* where the handler is: "read", "validate", "drain_reject",
                   \* "drain_ack", "chunk", "process", "finally", "done"
    data,          \* what the last reader.read(1024) returned
    command_name,  \* command of the last valid block
    valid_blocks,  \* blocks collected so far
    writer,        \* the blocks written to the socket, in order
    event_chunks,  \* chunks of valid_blocks
    chunk_i,       \* 1-based index of the chunk being processed
    submitted,     \* chunks whose event went to send_notification, in order
    exception,     \* what the except clause caught: "none", "read", "drain",
                   \* "parse"
    writer_closed, \* writer.close() was called
    received,      \* history: everything the reads returned, in order
    escaped,       \* an exception left handle_connection
    close_error,   \* wait_closed raised and the inner except logged it
    \* the notification queue, its producer, NotificationDispatcher and stop()
    queue,         \* items of the Queue, head first: (event, retry_count,
                   \* next_attempt_time)
    max_retries,   \* self.max_retries
    max_retry_time_minutes, \* self.max_retry_time_minutes
    shutdown_event, \* self.shutdown_event is set
    w_pc,          \* where run() is: "loop", "get", "put_back", "sleep",
                   \* "dispatch", "failed", "stopped", "crashed"
    w_job,         \* the item run() took and still holds
    now,           \* time.time(), in seconds
    p_pc,          \* where enqueue_notification is: "idle", "get_nowait",
                   \* "put_nowait"
    p_event,       \* the event given to enqueue_notification
    n_enqueued,    \* how many calls of enqueue_notification were made
    p_before,      \* history: the queue when the running call began, while
                   \* no other thread has touched the queue since
    p_clean,       \* history: no other thread touched the queue since the
                   \* running call began
    p_after_stop,  \* history: the running call of enqueue_notification began
                   \* after stop() had returned
    s_pc,          \* where stop() is: "idle", "put", "returned"
    attempts,      \* history: calls of _dispatch_http_notification per event
    posted,        \* history: calls of requests.post per event
    \* retry delay harness
    r_pc,          \* "init", "done"
    r_retry_count, \* argument of get_retry_delay
    r_max_retry_time, \* self.max_retry_time_minutes of the harness
    r_delay,       \* what get_retry_delay returned
    \* harness of the other pure functions: one call
    f_pc,          \* "init", "done"
    f_args,        \* the arguments of the call
    f_result       \* what the call returned

cvars == <<c_pc, c_command, c_payload, c_sent, c_how, c_data, c_result>>

hvars == <<pc, data, command_name, valid_blocks, writer, event_chunks, chunk_i,
           submitted, exception, writer_closed, received, escaped,
           close_error>>

qvars == <<queue, max_retries, max_retry_time_minutes, shutdown_event, w_pc,
           w_job, now, p_pc, p_event, n_enqueued, p_before, p_clean,
           p_after_stop, s_pc, attempts, posted>>

rvars == <<r_pc, r_retry_count, r_max_retry_time, r_delay>>

fvars == <<f_pc, f_args, f_result>>

dvars == <<qvars, rvars, fvars>>

vars == <<cvars, hvars, dvars>>

CodecIdle ==
    /\ c_pc = "idle"
    /\ c_command = "REJECT"
    /\ c_payload = <<>>
    /\ c_sent = <<>>
    /\ c_how = "none"
    /\ c_data = <<>>
    /\ c_result = NoneResult("none")

HandlerIdle ==
    /\ pc = "idle"
    /\ data = <<>>
    /\ command_name = ""
    /\ valid_blocks = <<>>
    /\ writer = <<>>
    /\ event_chunks = <<>>
    /\ chunk_i = 0
    /\ submitted = <<>>
    /\ exception = "none"
    /\ writer_closed = FALSE
    /\ received = <<>>
    /\ escaped = FALSE
    /\ close_error = FALSE

QueueIdle ==
    /\ queue = <<>>
    /\ max_retries = 0
    /\ max_retry_time_minutes = 1
    /\ shutdown_event = FALSE
    /\ w_pc = "off"
    /\ w_job = NoJob
    /\ now = 0
    /\ p_pc = "off"
    /\ p_event = NoneEvent
    /\ n_enqueued = 0
    /\ p_before = <<>>
    /\ p_clean = TRUE
    /\ p_after_stop = FALSE
    /\ s_pc = "off"
    /\ attempts = [i \in EventIds |-> 0]
    /\ posted = [i \in EventIds |-> 0]

FunIdle ==
    /\ f_pc = "off"
    /\ f_args = <<>>
    /\ f_result = <<>>

RetryIdle ==
    /\ r_pc = "off"
    /\ r_retry_count = 1
    /\ r_max_retry_time = 1
    /\ r_delay = 0

(***************************************************************************)
(* Inputs of the codec harness                                             *)
(***************************************************************************)
PayloadBytes == {0, 49, 64, 255}

\* every payload up to MaxPayloadLen, and the longest payloads around the
\* limit of the length byte (191 fits, 192 does not)
Payloads ==
    UNION {[1..n -> PayloadBytes] : n \in 0..MaxPayloadLen}
    \cup {[i \in 1..n |-> 49] : n \in {191, 192}}

RawBytes == {1, 5, 57, 63, 64, 134, 192, 255}

RawInputs == UNION {[1..n -> RawBytes] : n \in 0..MaxRawLen}

TamperBytes == {0, 5, 64, 65, 255}

TamperPositions(s) == {1, 2, 3, Len(s) - 1, Len(s)} \cap (1..Len(s))

(***************************************************************************)
(* Codec harness: build a block, carry it, validate what arrives           *)
(***************************************************************************)
CodecInit ==
    /\ c_pc = "init"
    /\ c_command = "REJECT"
    /\ c_payload = <<>>
    /\ c_sent = <<>>
    /\ c_how = "none"
    /\ c_data = <<>>
    /\ c_result = NoneResult("none")
    /\ HandlerIdle
    /\ QueueIdle
    /\ RetryIdle
    /\ FunIdle

\* build_and_send(writer, command, payload): the block is written, or
\* bytes() raises
CodecBuild ==
    /\ c_pc = "init"
    /\ \E command \in CommandNames, payload \in Payloads :
          LET m == final_message(command, payload)
          IN  /\ c_command' = command
              /\ c_payload' = payload
              /\ IF m.raised
                 THEN c_pc' = "error" /\ c_sent' = c_sent
                 ELSE c_pc' = "built" /\ c_sent' = m.bytes
    /\ UNCHANGED <<c_how, c_data, c_result, hvars, dvars>>

\* the written block arrives unchanged
CodecDeliver ==
    /\ c_pc = "built"
    /\ c_data' = c_sent
    /\ c_how' = "intact"
    /\ c_pc' = "received"
    /\ UNCHANGED <<c_command, c_payload, c_sent, c_result, hvars, dvars>>

\* the written block arrives with the value of exactly one byte changed
CodecCorrupt ==
    /\ c_pc = "built"
    /\ \E pos \in TamperPositions(c_sent), v \in TamperBytes :
          /\ v # c_sent[pos]
          /\ c_data' = [c_sent EXCEPT ![pos] = v]
    /\ c_how' = "corrupt"
    /\ c_pc' = "received"
    /\ UNCHANGED <<c_command, c_payload, c_sent, c_result, hvars, dvars>>

\* the written block arrives without its last byte
CodecTruncate ==
    /\ c_pc = "built"
    /\ c_data' = Slice(c_sent, 1, Len(c_sent) - 1)
    /\ c_how' = "truncated"
    /\ c_pc' = "received"
    /\ UNCHANGED <<c_command, c_payload, c_sent, c_result, hvars, dvars>>

\* the written block arrives with one more byte after it
CodecExtend ==
    /\ c_pc = "built"
    /\ \E v \in TamperBytes : c_data' = Append(c_sent, v)
    /\ c_how' = "extended"
    /\ c_pc' = "received"
    /\ UNCHANGED <<c_command, c_payload, c_sent, c_result, hvars, dvars>>

\* arbitrary bytes arrive from the network instead
CodecRaw ==
    /\ c_pc = "init"
    /\ c_data' \in RawInputs
    /\ c_how' = "raw"
    /\ c_pc' = "received"
    /\ UNCHANGED <<c_command, c_payload, c_sent, c_result, hvars, dvars>>

CodecValidate ==
    /\ c_pc = "received"
    /\ c_result' = validate_and_strip(c_data)
    /\ c_pc' = "done"
    /\ UNCHANGED <<c_command, c_payload, c_sent, c_how, c_data, hvars, dvars>>

CodecNext ==
    \/ CodecBuild
    \/ CodecDeliver
    \/ CodecCorrupt
    \/ CodecTruncate
    \/ CodecExtend
    \/ CodecRaw
    \/ CodecValidate

SpecCodec == CodecInit /\ [][CodecNext]_vars

(***************************************************************************)
(* What a panel (or anything else on the network) can send                 *)
(***************************************************************************)
Bit(b, k) == (b \div (2 ^ k)) % 2

\* bit k of 0xFF XORed with every byte of s: set iff an even number of the
\* bytes of s have bit k set
ParityOf(s, k) == (1 + Cardinality({i \in 1..Len(s) : Bit(s[i], k) = 1})) % 2

ChecksumOf(s) ==
    ParityOf(s, 0) + 2 * ParityOf(s, 1) + 4 * ParityOf(s, 2) + 8 * ParityOf(s, 3)
    + 16 * ParityOf(s, 4) + 32 * ParityOf(s, 5) + 64 * ParityOf(s, 6)
    + 128 * ParityOf(s, 7)

\* a well-framed block as the panel sends it
PanelBlock(command_byte, payload) ==
    LET body == <<Len(payload) + 64, command_byte>> \o payload
    IN  Append(body, ChecksumOf(body))

GoodFrames ==
    { PanelBlock(35, <<49>>),       \* ACCOUNT_ID "1"
      PanelBlock(35, <<50>>),       \* ACCOUNT_ID "2"
      PanelBlock(78, <<67, 76>>),   \* NEW_EVENT "CL"
      PanelBlock(65, <<72, 73>>),   \* ASCII "HI"
      PanelBlock(48, <<>>),         \* END_OF_DATA
      PanelBlock(49, <<>>),         \* WAIT: in the table, unused
      PanelBlock(119, <<>>) }       \* 0x77: not in the table

BadFrames ==
    { <<65, 35, 49, 0>>,            \* ACCOUNT_ID "1" with a wrong checksum
      <<64, 35>>,                   \* two bytes
      <<5>>,                        \* one byte, 0x05
      <<5, 1>>,                     \* encrypted handshake marker alone
      <<5, 1, 0, 16>>,              \* encrypted handshake
      <<5, 1, 251>> }               \* the marker with its right checksum

Frames == GoodFrames \cup BadFrames

(***************************************************************************)
(* sia-server.py: handle_connection                                        *)
(***************************************************************************)
Init ==
    /\ CodecIdle
    /\ QueueIdle
    /\ RetryIdle
    /\ FunIdle
    /\ pc = "read"
    /\ data = <<>>
    /\ command_name = ""
    /\ valid_blocks = <<>>
    /\ writer = <<>>
    /\ event_chunks = <<>>
    /\ chunk_i = 0
    /\ submitted = <<>>
    /\ exception = "none"
    /\ writer_closed = FALSE
    /\ received = <<>>
    /\ escaped = FALSE
    /\ close_error = FALSE

\* data = await reader.read(1024): a block arrives, or b'' when the peer
\* has closed (the peer closes after MaxReads blocks at the latest)
Read ==
    /\ pc = "read"
    /\ \E d \in (IF Len(received) < MaxReads THEN Frames ELSE {}) \cup {<<>>} :
          /\ data' = d
          /\ received' = Append(received, d)
    /\ pc' = "validate"
    /\ UNCHANGED <<command_name, valid_blocks, writer, event_chunks, chunk_i,
                   submitted, exception, writer_closed, escaped, close_error, cvars, dvars>>

\* reader.read raises (connection reset): except logs, finally closes
ReadError ==
    /\ pc = "read"
    /\ exception' = "read"
    /\ pc' = "finally"
    /\ UNCHANGED <<data, command_name, valid_blocks, writer, event_chunks,
                   chunk_i, submitted, writer_closed, received, escaped, close_error, cvars, dvars>>

\* from the return of read to the next await: the peer-closed test,
\* validate_and_strip, the handshake test, the append and writer.write
HandleData ==
    /\ pc = "validate"
    /\ IF data = <<>>
       THEN \* if not data: break
            /\ pc' = "chunk"
            /\ UNCHANGED <<command_name, valid_blocks, writer>>
       ELSE LET r == validate_and_strip(data)
            IN  IF ~r.valid
                THEN IF is_encrypted_handshake(data)
                     THEN \* nothing is sent back; break
                          /\ pc' = "chunk"
                          /\ UNCHANGED <<command_name, valid_blocks, writer>>
                     ELSE \* build_and_send(writer, 'REJECT'); continue
                          /\ writer' = build_and_send(writer, "REJECT")
                          /\ pc' = "drain_reject"
                          /\ UNCHANGED <<command_name, valid_blocks>>
                ELSE /\ command_name' = command_name_of(r.command_byte)
                     /\ valid_blocks' =
                            append_block(valid_blocks, command_name', r.payload)
                     /\ writer' = build_and_send(writer, "ACKNOWLEDGE")
                     /\ pc' = "drain_ack"
    /\ UNCHANGED <<data, event_chunks, chunk_i, submitted, exception,
                   writer_closed, received, escaped, close_error, cvars, dvars>>

\* await writer.drain() returns: REJECT was sent, continue; ACKNOWLEDGE was
\* sent, break after END_OF_DATA and loop otherwise
DrainOk ==
    /\ pc \in {"drain_reject", "drain_ack"}
    /\ pc' = IF pc = "drain_ack" /\ command_name = "END_OF_DATA"
             THEN "chunk"
             ELSE "read"
    /\ UNCHANGED <<data, command_name, valid_blocks, writer, event_chunks,
                   chunk_i, submitted, exception, writer_closed, received, escaped, close_error, cvars, dvars>>

\* await writer.drain() raises (connection lost): except logs, finally closes
DrainError ==
    /\ pc \in {"drain_reject", "drain_ack"}
    /\ exception' = "drain"
    /\ pc' = "finally"
    /\ UNCHANGED <<data, command_name, valid_blocks, writer, event_chunks,
                   chunk_i, submitted, writer_closed, received, escaped, close_error, cvars, dvars>>

\* after the loop: return when nothing was collected, else chunk the blocks
Chunk ==
    /\ pc = "chunk"
    /\ IF valid_blocks = <<>>
       THEN /\ pc' = "finally"
            /\ UNCHANGED <<event_chunks, chunk_i>>
       ELSE /\ event_chunks' = assemble_chunks(valid_blocks)
            /\ chunk_i' = 1
            /\ pc' = "process"
    /\ UNCHANGED <<data, command_name, valid_blocks, writer, submitted,
                   exception, writer_closed, received, escaped, close_error, cvars, dvars>>

\* one turn of `for i, chunk in enumerate(event_chunks, 1)`: parse the chunk
\* and hand the event to send_notification; an exception ends the handler
ProcessChunk ==
    /\ pc = "process"
    /\ IF chunk_i > Len(event_chunks)
       THEN /\ pc' = "finally"
            /\ UNCHANGED <<chunk_i, submitted, exception>>
       ELSE LET event == parse_galaxy_event(event_chunks[chunk_i])
            IN  IF event.raised
                THEN /\ exception' = "parse"
                     /\ pc' = "finally"
                     /\ UNCHANGED <<chunk_i, submitted>>
                ELSE /\ submitted' = Append(submitted, event_chunks[chunk_i])
                     /\ chunk_i' = chunk_i + 1
                     /\ UNCHANGED <<pc, exception>>
    /\ UNCHANGED <<data, command_name, valid_blocks, writer, event_chunks,
                   writer_closed, received, escaped, close_error, cvars, dvars>>

\* the except clause (except Exception) catches every exception the body
\* raises: connection errors of read and drain, exceptions of the chunk loop
handler_catches_io_only(kind) == kind \in {"read", "drain"}

handler_catches(kind) == kind \in {"read", "drain", "parse"}

\* finally: writer.close(); await writer.wait_closed(), itself inside
\* try/except Exception: wait_closed returns or raises, and what it raises
\* is logged
Finally ==
    /\ pc = "finally"
    /\ writer_closed' = TRUE
    /\ close_error' \in BOOLEAN
    /\ escaped' = (exception # "none" /\ ~handler_catches(exception))
    /\ pc' = "done"
    /\ UNCHANGED <<data, command_name, valid_blocks, writer, event_chunks,
                   chunk_i, submitted, exception, received, cvars, dvars>>

Next ==
    \/ Read
    \/ ReadError
    \/ HandleData
    \/ DrainOk
    \/ DrainError
    \/ Chunk
    \/ ProcessChunk
    \/ Finally

Spec == Init /\ [][Next]_vars

\* the handler with the scheduling the event loop guarantees: a coroutine
\* that is not waiting for the peer runs on; the steps that wait for the
\* peer (read, drain) get no fairness
FairSpec ==
    Spec /\ WF_vars(HandleData \/ Chunk \/ ProcessChunk \/ Finally)

(***************************************************************************)
(* notification.py: the Queue operations the module calls                  *)
(***************************************************************************)
\* capacity the Queue was created with
maxsize == MAX_QUEUE_SIZE

\* queue.full()
full(q) == Len(q) >= maxsize

\* queue.get_nowait(): the head item, or Empty
get_nowait_newest(q) ==
    IF q = <<>>
    THEN [raised |-> TRUE, item |-> NoJob, queue |-> q]
    ELSE [raised |-> FALSE, item |-> q[Len(q)],
          queue |-> SubSeq(q, 1, Len(q) - 1)]

get_nowait(q) ==
    IF q = <<>>
    THEN [raised |-> TRUE, item |-> NoJob, queue |-> q]
    ELSE [raised |-> FALSE, item |-> Head(q), queue |-> Tail(q)]

\* queue.get(): waits while the queue is empty, then takes the oldest item
get_newest(q) ==
    IF q = <<>>
    THEN [ready |-> FALSE, item |-> NoJob, queue |-> q]
    ELSE [ready |-> TRUE, item |-> q[Len(q)],
          queue |-> SubSeq(q, 1, Len(q) - 1)]

get(q) ==
    IF q = <<>>
    THEN [ready |-> FALSE, item |-> NoJob, queue |-> q]
    ELSE [ready |-> TRUE, item |-> Head(q), queue |-> Tail(q)]

\* queue.put(item): waits while the queue is full, then appends
put(q, item) ==
    [ready |-> ~full(q), raised |-> FALSE, queue |-> Append(q, item)]

\* queue.put_nowait(item): appends, or QueueFull; never waits
put_nowait_unbounded(q, item) ==
    [ready |-> TRUE, raised |-> FALSE, queue |-> Append(q, item)]

put_nowait_waiting(q, item) ==
    [ready |-> ~full(q), raised |-> FALSE, queue |-> Append(q, item)]

put_nowait(q, item) ==
    IF full(q)
    THEN [ready |-> TRUE, raised |-> TRUE, queue |-> q]
    ELSE [ready |-> TRUE, raised |-> FALSE, queue |-> Append(q, item)]

(***************************************************************************)
(* notification.py: _dispatch_http_notification                            *)
(***************************************************************************)
NoTopic == [present |-> FALSE, enabled |-> FALSE, url |-> "none"]

Topic(enabled, url) == [present |-> TRUE, enabled |-> enabled, url |-> url]

\* the routing table of the run: account "A" has an enabled topic, "B" has
\* an entry that is not enabled, any other account has no entry, and there
\* is no "default"
ntfy_topics ==
    [a \in {"A", "B"} |->
        CASE a = "A" -> Topic(TRUE, "https")
          [] a = "B" -> Topic(FALSE, "https")]

\* ntfy_topics.get(event.account, ntfy_topics.get('default'))
topic_config_of(event, topics) ==
    IF event.account \in DOMAIN topics
    THEN topics[event.account]
    ELSE IF "default" \in DOMAIN topics
         THEN topics["default"]
         ELSE NoTopic

\* what the function does before any request: "skip" (return False without
\* a request), "raise" (format_notification_text reads
\* event.event_description, which GalaxyEvent does not have, when
\* action_text is empty) or "post"
dispatch_plan(event, topics) ==
    LET topic_config == topic_config_of(event, topics)
    IN  IF ~topic_config.present \/ ~topic_config.enabled
        THEN "skip"
        ELSE IF topic_config.url \in {"none", "your-topic-here"}
             THEN "skip"
             ELSE IF ~event.event_code
                  THEN "skip"
                  ELSE IF ~event.action_text
                       THEN "raise"
                       ELSE "post"

\* what requests.post can come to: a response with a status code, or an
\* exception of requests
Response(status_code) == [kind |-> "response", status_code |-> status_code]

Timeout == [kind |-> "Timeout", status_code |-> 0]

ConnectionError == [kind |-> "ConnectionError", status_code |-> 0]

NoOutcome == [kind |-> "none", status_code |-> 0]

\* every outcome of one request; a response's status code is the final
\* one (100 Continue is never the final status of a response)
AllHttpOutcomes ==
    {Response(status_code) : status_code \in 101..599}
        \cup {Timeout, ConnectionError}

\* the outcomes tried by the dispatcher thread's runs: one of each class
\* that post_succeeds tells apart
HttpOutcomes == {Response(200), Response(304), Response(500), Timeout}

\* response.raise_for_status() raises HTTPError, a RequestException, for
\* 4xx and 5xx only; Timeout and every other RequestException give False
raise_for_status(response) ==
    400 <= response.status_code /\ response.status_code < 600

post_succeeds(outcome) ==
    outcome.kind = "response" /\ ~raise_for_status(outcome)

\* _dispatch_http_notification(event, ntfy_topics, ...) when the request,
\* if one is made, comes to outcome: the topic configuration looked up,
\* whether and where a request was made, whether the call raised, and the
\* value returned
dispatch_http_notification(event, topics, outcome) ==
    LET plan == dispatch_plan(event, topics)
    IN  [topic_config |-> topic_config_of(event, topics),
         requested |-> plan = "post",
         ntfy_url |-> IF plan = "post"
                      THEN topic_config_of(event, topics).url
                      ELSE "none",
         outcome |-> IF plan = "post" THEN outcome ELSE NoOutcome,
         raised |-> plan = "raise",
         returned |-> plan = "post" /\ post_succeeds(outcome)]

(***************************************************************************)
(* notification.py: NotificationDispatcher.get_retry_delay                 *)
(***************************************************************************)
Min(a, b) == IF a < b THEN a ELSE b

get_retry_delay_unclamped(retry_count, max_minutes) ==
    (1 * (2 ^ (retry_count - 1))) * 60

get_retry_delay(retry_count, max_minutes) ==
    LET base_delay == 1
        current_delay == base_delay * (2 ^ (retry_count - 1))
        final_delay == Min(current_delay, max_minutes)
    IN  final_delay * 60

(***************************************************************************)
(* The notification queue with its three threads                           *)
(***************************************************************************)
\* the events that are enqueued: a complete event of account "A" and of
\* account "B", an event without event_code and an event without action_text
EventKinds ==
    {[account |-> a, event_code |-> TRUE, action_text |-> TRUE] :
        a \in {"A", "B"}}
    \cup {[account |-> "A", event_code |-> FALSE, action_text |-> TRUE],
          [account |-> "A", event_code |-> TRUE, action_text |-> FALSE]}

Event(id, kind) ==
    [id |-> id, account |-> kind.account, event_code |-> kind.event_code,
     action_text |-> kind.action_text]

\* the events of the runs in which stop() is called
StopEventKinds ==
    {[account |-> a, event_code |-> TRUE, action_text |-> TRUE] :
        a \in {"A", "B"}}

\* max_retry_time of the run, in minutes
RetryTimes == {4}

\* the dispatcher thread has been started on an empty queue
QueueStart ==
    /\ CodecIdle
    /\ HandlerIdle
    /\ RetryIdle
    /\ FunIdle
    /\ queue = <<>>
    /\ max_retries \in {0, MaxRetriesBound}
    /\ max_retry_time_minutes \in RetryTimes
    /\ shutdown_event = FALSE
    /\ w_pc = "loop"
    /\ w_job = NoJob
    /\ now = 0
    /\ p_pc = "idle"
    /\ p_event = NoneEvent
    /\ n_enqueued = 0
    /\ p_before = <<>>
    /\ p_clean = TRUE
    /\ p_after_stop = FALSE
    /\ attempts = [i \in EventIds |-> 0]
    /\ posted = [i \in EventIds |-> 0]

\* a run in which stop() is not called
QueueInit == QueueStart /\ s_pc = "off"

\* a run in which stop() may be called at any moment
StopInit == QueueStart /\ s_pc = "idle"

\* history: a thread other than the producer operates on the queue
OtherThreadTouchesQueue ==
    IF p_pc = "idle"
    THEN UNCHANGED <<p_before, p_clean>>
    ELSE p_before' = <<>> /\ p_clean' = FALSE

\* time passes
Tick ==
    /\ now + 60 <= 60 * MaxMinutes
    /\ now' = now + 60
    /\ UNCHANGED <<queue, max_retries, max_retry_time_minutes, shutdown_event,
                   w_pc, w_job, p_pc, p_event, n_enqueued, p_before, p_clean,
                   s_pc, attempts, posted, cvars, hvars, rvars, fvars,
                   p_after_stop>>

\* enqueue_notification(event, queue) is called: if queue.full()
EnqueueCall(kinds) ==
    /\ p_pc = "idle"
    /\ n_enqueued < MaxEvents
    /\ \E kind \in kinds : p_event' = Event(n_enqueued + 1, kind)
    /\ n_enqueued' = n_enqueued + 1
    /\ p_pc' = IF full(queue) THEN "get_nowait" ELSE "put_nowait"
    /\ p_before' = queue
    /\ p_clean' = TRUE
    /\ p_after_stop' = (s_pc = "returned")
    /\ UNCHANGED <<queue, max_retries, max_retry_time_minutes, shutdown_event,
                   w_pc, w_job, now, s_pc, attempts, posted, cvars, hvars,
                   rvars, fvars>>

\* queue.get_nowait() drops the oldest item; except Empty: pass
EnqueueGet ==
    /\ p_pc = "get_nowait"
    /\ queue' = get_nowait(queue).queue
    /\ p_pc' = "put_nowait"
    /\ UNCHANGED <<max_retries, max_retry_time_minutes, shutdown_event, w_pc,
                   w_job, now, p_event, n_enqueued, p_before, p_clean, s_pc,
                   attempts, posted, cvars, hvars, rvars, fvars,
                   p_after_stop>>

\* queue.put_nowait((event, 0, 0)); except QueueFull: the event is lost;
\* the call returns
EnqueuePut ==
    /\ p_pc = "put_nowait"
    /\ LET r == put_nowait(queue, Item(p_event, 0, 0))
       IN  /\ r.ready
           /\ queue' = r.queue
    /\ p_pc' = "idle"
    /\ p_event' = NoneEvent
    /\ p_before' = <<>>
    /\ p_clean' = TRUE
    /\ p_after_stop' = FALSE
    /\ UNCHANGED <<max_retries, max_retry_time_minutes, shutdown_event, w_pc,
                   w_job, now, n_enqueued, s_pc, attempts, posted, cvars,
                   hvars, rvars, fvars>>

\* if current_time < next_attempt_time: it is not time for this item yet
not_due_never(current_time, next_attempt_time) == FALSE

not_due(current_time, next_attempt_time) == current_time < next_attempt_time

\* while not self.shutdown_event.is_set()
WorkerLoop ==
    /\ w_pc = "loop"
    /\ w_pc' = IF shutdown_event THEN "stopped" ELSE "get"
    /\ UNCHANGED <<queue, max_retries, max_retry_time_minutes, shutdown_event,
                   w_job, now, p_pc, p_event, n_enqueued, p_before, p_clean,
                   s_pc, attempts, posted, cvars, hvars, rvars, fvars,
                   p_after_stop>>

\* event, retry_count, next_attempt_time = self.queue.get(), which waits
\* for an item; the shutdown item ends the loop; current_time = time.time()
\* and the test current_time < next_attempt_time
WorkerGet ==
    /\ w_pc = "get"
    /\ LET r == get(queue)
       IN  /\ r.ready
           /\ queue' = r.queue
           /\ IF r.item.event = NoneEvent
              THEN w_pc' = "stopped" /\ w_job' = NoJob
              ELSE /\ w_job' = r.item
                   /\ w_pc' = IF not_due(now, r.item.next_attempt_time)
                              THEN "put_back"
                              ELSE "dispatch"
    /\ OtherThreadTouchesQueue
    /\ UNCHANGED <<max_retries, max_retry_time_minutes, shutdown_event, now,
                   p_pc, p_event, n_enqueued, s_pc, attempts, posted, cvars,
                   hvars, rvars, fvars, p_after_stop>>

\* self.queue.put((event, retry_count, next_attempt_time)), which waits for
\* a free slot
WorkerPutBack ==
    /\ w_pc = "put_back"
    /\ LET r == put(queue, w_job)
       IN  /\ r.ready
           /\ queue' = r.queue
    /\ w_pc' = "sleep"
    /\ w_job' = NoJob
    /\ OtherThreadTouchesQueue
    /\ UNCHANGED <<max_retries, max_retry_time_minutes, shutdown_event, now,
                   p_pc, p_event, n_enqueued, s_pc, attempts, posted, cvars,
                   hvars, rvars, fvars, p_after_stop>>

\* time.sleep(1.0); continue
WorkerSleep ==
    /\ w_pc = "sleep"
    /\ w_pc' = "loop"
    /\ UNCHANGED <<queue, max_retries, max_retry_time_minutes, shutdown_event,
                   w_job, now, p_pc, p_event, n_enqueued, p_before, p_clean,
                   s_pc, attempts, posted, cvars, hvars, rvars, fvars,
                   p_after_stop>>

\* success = _dispatch_http_notification(event, ...): True ends the turn
\* of the loop, False goes on to the retry code, an exception ends run()
WorkerDispatch ==
    /\ w_pc = "dispatch"
    /\ attempts' = [attempts EXCEPT ![w_job.event.id] = @ + 1]
    /\ LET plan == dispatch_plan(w_job.event, ntfy_topics)
       IN  CASE plan = "skip" ->
                  /\ w_pc' = "failed"
                  /\ UNCHANGED <<w_job, posted>>
             [] plan = "raise" ->
                  /\ w_pc' = "crashed"
                  /\ UNCHANGED <<w_job, posted>>
             [] plan = "post" ->
                  /\ posted' = [posted EXCEPT ![w_job.event.id] = @ + 1]
                  /\ \E outcome \in HttpOutcomes :
                        IF post_succeeds(outcome)
                        THEN w_pc' = "loop" /\ w_job' = NoJob
                        ELSE w_pc' = "failed" /\ w_job' = w_job
    /\ UNCHANGED <<queue, max_retries, max_retry_time_minutes, shutdown_event,
                   now, p_pc, p_event, n_enqueued, p_before, p_clean, s_pc,
                   cvars, hvars, rvars, fvars, p_after_stop>>

\* the item the retry code puts: retry_count += 1 and
\* new_next_attempt_time = time.time() + delay
retry_item_same_count(job, t, max_minutes) ==
    Item(job.event, job.retry_count,
         t + get_retry_delay(job.retry_count + 1, max_minutes))

retry_item(job, t, max_minutes) ==
    Item(job.event, job.retry_count + 1,
         t + get_retry_delay(job.retry_count + 1, max_minutes))

\* if self.max_retries == 0 or retry_count <= self.max_retries
retries_left_one_more(retry_count, limit) ==
    limit = 0 \/ retry_count <= limit + 1

retries_left(retry_count, limit) == limit = 0 \/ retry_count <= limit

\* if not success: the item goes back with put_nowait, is lost on QueueFull,
\* or is given up
WorkerRetry ==
    /\ w_pc = "failed"
    /\ IF retries_left(w_job.retry_count + 1, max_retries)
       THEN LET r == put_nowait(queue,
                         retry_item(w_job, now, max_retry_time_minutes))
            IN  /\ r.ready
                /\ queue' = r.queue
                /\ OtherThreadTouchesQueue
       ELSE UNCHANGED <<queue, p_before, p_clean>>
    /\ w_pc' = "loop"
    /\ w_job' = NoJob
    /\ UNCHANGED <<max_retries, max_retry_time_minutes, shutdown_event, now,
                   p_pc, p_event, n_enqueued, s_pc, attempts, posted, cvars,
                   hvars, rvars, fvars, p_after_stop>>

\* stop(): self.shutdown_event.set()
StopSet ==
    /\ s_pc = "idle"
    /\ shutdown_event' = TRUE
    /\ s_pc' = "put"
    /\ UNCHANGED <<queue, max_retries, max_retry_time_minutes, w_pc, w_job,
                   now, p_pc, p_event, n_enqueued, p_before, p_clean,
                   attempts, posted, cvars, hvars, rvars, fvars,
                   p_after_stop>>

\* stop(): self.queue.put((None, 0, 0)), which waits for a free slot
StopPut ==
    /\ s_pc = "put"
    /\ LET r == put(queue, NoJob)
       IN  /\ r.ready
           /\ queue' = r.queue
    /\ s_pc' = "returned"
    /\ OtherThreadTouchesQueue
    /\ UNCHANGED <<max_retries, max_retry_time_minutes, shutdown_event, w_pc,
                   w_job, now, p_pc, p_event, n_enqueued, attempts, posted,
                   cvars, hvars, rvars, fvars, p_after_stop>>

\* the steps of the dispatcher thread
WorkerNext ==
    \/ WorkerLoop
    \/ WorkerGet
    \/ WorkerPutBack
    \/ WorkerSleep
    \/ WorkerDispatch
    \/ WorkerRetry

QueueNext ==
    \/ Tick
    \/ EnqueueCall(EventKinds)
    \/ EnqueueGet
    \/ EnqueuePut
    \/ WorkerNext

SpecQueue == QueueInit /\ [][QueueNext]_vars

StopNext ==
    \/ Tick
    \/ EnqueueCall(StopEventKinds)
    \/ EnqueueGet
    \/ EnqueuePut
    \/ WorkerNext
    \/ StopSet
    \/ StopPut

SpecStop == StopInit /\ [][StopNext]_vars

\* every thread that can take a step takes it in the end: the dispatcher
\* thread, the thread inside stop(), the thread inside
\* enqueue_notification, and the clock; nothing makes a caller call
\* enqueue_notification or stop()
FairSpecStop ==
    /\ SpecStop
    /\ WF_vars(WorkerNext)
    /\ WF_vars(StopPut)
    /\ WF_vars(EnqueueGet \/ EnqueuePut)
    /\ WF_vars(Tick)

(***************************************************************************)
(* Dispatch harness: one call of _dispatch_http_notification               *)
(***************************************************************************)
\* the keys of the routing tables tried, and the accounts of the events
TableKeys == {"A", "B", "default"}

DispatchAccounts == {"A", "B", "C"}

\* the routing tables: every key is absent, enabled or not enabled; the
\* url of an entry tells the entries apart
RoutingTables ==
    {[k \in keys |-> Topic(k \in on, k)] :
        <<keys, on>> \in {<<ks, es>> \in (SUBSET TableKeys) \X (SUBSET TableKeys) :
                            es \subseteq ks}}

DispatchInit ==
    /\ CodecIdle
    /\ HandlerIdle
    /\ QueueIdle
    /\ RetryIdle
    /\ f_pc = "dispatch"
    /\ \E account \in DispatchAccounts, event_code \in BOOLEAN,
          action_text \in BOOLEAN, topics \in RoutingTables :
          f_args = [event |-> Event(1, [account |-> account,
                                        event_code |-> event_code,
                                        action_text |-> action_text]),
                    ntfy_topics |-> topics]
    /\ f_result = <<>>

Dispatch ==
    /\ f_pc = "dispatch"
    /\ \E outcome \in AllHttpOutcomes :
          f_result' = dispatch_http_notification(f_args.event,
                                                 f_args.ntfy_topics, outcome)
    /\ f_pc' = "dispatched"
    /\ UNCHANGED <<f_args, cvars, hvars, qvars, rvars>>

DispatchNext == Dispatch

SpecDispatch == DispatchInit /\ [][DispatchNext]_vars

(***************************************************************************)
(* galaxy/parser.py: decode_unknown_text                                   *)
(***************************************************************************)
\* the longest text given to decode_unknown_text
MaxTextLen == 3

\* data.decode('iso-8859-1'): every byte becomes the character whose code
\* point is the byte's value; a text is the sequence of its code points
decode_iso_8859_1(raw) == [i \in 1..Len(raw) |-> raw[i]]

\* text begins with old
startswith(text, old) ==
    /\ Len(old) <= Len(text)
    /\ SubSeq(text, 1, Len(old)) = old

\* text.replace(old, new): every occurrence of old, from the left and not
\* overlapping, becomes new; an empty old matches before every character
\* and at the end
RECURSIVE replace(_, _, _)
replace(text, old, new) ==
    IF old = <<>>
    THEN IF text = <<>>
         THEN new
         ELSE new \o <<Head(text)>> \o replace(Tail(text), old, new)
    ELSE IF text = <<>>
         THEN <<>>
         ELSE IF startswith(text, old)
              THEN new \o replace(SubSeq(text, Len(old) + 1, Len(text)),
                                  old, new)
              ELSE <<Head(text)>> \o replace(Tail(text), old, new)

\* the characters str.strip() removes, up to code point 255
Whitespace == {9, 10, 11, 12, 13, 28, 29, 30, 31, 32, 133, 160}

\* text.strip()
RECURSIVE lstrip(_)
lstrip(text) ==
    IF text # <<>> /\ Head(text) \in Whitespace
    THEN lstrip(Tail(text))
    ELSE text

RECURSIVE rstrip(_)
rstrip(text) ==
    IF text # <<>> /\ text[Len(text)] \in Whitespace
    THEN rstrip(SubSeq(text, 1, Len(text) - 1))
    ELSE text

strip(text) == rstrip(lstrip(text))

\* for bad_byte, good_char in char_map.items(): text = text.replace(...);
\* char_map is the sequence of the dictionary's items in their order
RECURSIVE replace_all(_, _)
replace_all(text, char_map) ==
    IF char_map = <<>>
    THEN text
    ELSE replace_all(replace(text, decode_iso_8859_1(char_map[1][1]),
                             char_map[1][2]),
                     Tail(char_map))

decode_unknown_text(raw, char_map) ==
    strip(replace_all(decode_iso_8859_1(raw), char_map))

\* the bytes of the texts tried: space, "A", "[" and 0x8e
TextBytes == {32, 65, 91, 142}

Texts == UNION {[1..n -> TextBytes] : n \in 0..MaxTextLen}

\* the keys of the character maps tried, 0x8e as in UNKNOWN_CHAR_MAP and
\* "[", and their values, "\"A" (code point 196) and "A"
CharMapItems == {<<142>>, <<91>>} \X {<<196>>, <<65>>}

\* the character maps tried: no item, one item, or two items with
\* different keys
CharMaps ==
    {<<>>} \cup {<<item>> : item \in CharMapItems}
           \cup {<<a, b>> : <<a, b>> \in
                    {ab \in CharMapItems \X CharMapItems :
                        ab[1][1] # ab[2][1]}}

DecodeInit ==
    /\ CodecIdle
    /\ HandlerIdle
    /\ QueueIdle
    /\ RetryIdle
    /\ f_pc = "decode"
    /\ \E raw \in Texts, char_map \in CharMaps :
          f_args = [data |-> raw, char_map |-> char_map]
    /\ f_result = <<>>

Decode ==
    /\ f_pc = "decode"
    /\ f_result' = decode_unknown_text(f_args.data, f_args.char_map)
    /\ f_pc' = "decoded"
    /\ UNCHANGED <<f_args, cvars, hvars, qvars, rvars>>

DecodeNext == Decode

SpecDecode == DecodeInit /\ [][DecodeNext]_vars

(***************************************************************************)
(* galaxy/parser.py: parse_account_block and parse_data_block on the raw   *)
(* bytes of a block (length byte, command byte, payload, checksum)         *)
(***************************************************************************)
\* the longest payload given to the parser
MaxParseLen == 6

\* a field of GalaxyEvent that is None; no text equals it
None == <<-1>>

\* bytes.decode('utf-8', errors='ignore') for bytes that are ASCII, which
\* become the character of the same code point, or 0xFF, which belongs to
\* no UTF-8 sequence and is left out
RECURSIVE decode_utf_8_ignore(_)
decode_utf_8_ignore(raw) ==
    IF raw = <<>>
    THEN <<>>
    ELSE CASE Head(raw) < 128 ->
                <<Head(raw)>> \o decode_utf_8_ignore(Tail(raw))
           [] Head(raw) = 255 -> decode_utf_8_ignore(Tail(raw))

\* data_without_checksum.index(b'#'): the first position (from 0) of the
\* byte 0x23, or -1 for ValueError
RECURSIVE index_from(_, _, _)
index_from(raw, byte, i) ==
    IF i > Len(raw)
    THEN -1
    ELSE IF raw[i] = byte THEN i - 1 ELSE index_from(raw, byte, i + 1)

index(raw, byte) == index_from(raw, byte, 1)

\* parse_account_block(data, event): the fields it sets
parse_account_block(raw) ==
    LET data_without_checksum == SubSeq(raw, 1, Len(raw) - 1)
        hash_position == index(data_without_checksum, 35)
    IN  IF hash_position = -1
        THEN [account_prefix |-> "UNKNOWN", account |-> None]
        ELSE [account_prefix |->
                  decode_utf_8_ignore(
                      SubSeq(data_without_checksum, 1, hash_position)),
              account |->
                  decode_utf_8_ignore(
                      SubSeq(data_without_checksum, hash_position + 2,
                             Len(data_without_checksum)))]

\* data_str.split('/')[-1]: what follows the last "/"
RECURSIVE last_section_of(_)
last_section_of(data_str) ==
    IF 47 \in {data_str[i] : i \in 1..Len(data_str)}
    THEN last_section_of(Tail(data_str))
    ELSE data_str

\* how many characters at the start of text are in the set, up to most
RECURSIVE leading(_, _, _)
leading(text, set, most) ==
    IF most = 0 \/ text = <<>> \/ Head(text) \notin set
    THEN 0
    ELSE 1 + leading(Tail(text), set, most - 1)

UpperCase == 65..90

Digits == 48..57

\* re.match(r'([A-Z]{2,4})(\d{3,4})?', last_section): group 1 takes as
\* many letters as it can, group 2 as many digits as it can
ec_match(last_section) ==
    LET letters == leading(last_section, UpperCase, 4)
        rest    == SubSeq(last_section, letters + 1, Len(last_section))
        digits  == leading(rest, Digits, 4)
    IN  IF letters < 2
        THEN [matched |-> FALSE, group1 |-> None, group2 |-> None]
        ELSE [matched |-> TRUE,
              group1 |-> SubSeq(last_section, 1, letters),
              group2 |-> IF digits >= 3
                         THEN SubSeq(rest, 1, digits)
                         ELSE None]

\* parse_data_block(data, event): message_type, event_code and zone; the
\* fields of the sections before the last one are not represented
parse_data_block(raw) ==
    LET data_str == decode_utf_8_ignore(SubSeq(raw, 3, Len(raw) - 1))
        m        == ec_match(last_section_of(data_str))
    IN  [message_type |-> IF Len(raw) >= 2
                          THEN decode_utf_8_ignore(SubSeq(raw, 1, 2))
                          ELSE None,
         event_code |-> m.group1,
         zone |-> m.group2]

\* the bytes of the payloads tried: "1", "/", "A", "t" and 0xFF
ParseBytes == {49, 47, 65, 116, 255}

ParsePayloads == UNION {[1..n -> ParseBytes] : n \in 0..MaxParseLen}

ParseInit ==
    /\ CodecIdle
    /\ HandlerIdle
    /\ QueueIdle
    /\ RetryIdle
    /\ f_pc = "parse"
    /\ \E command \in {"ACCOUNT_ID", "NEW_EVENT"}, payload \in ParsePayloads :
          f_args = [command |-> command, payload |-> payload,
                    raw |-> final_message(command, payload).bytes]
    /\ f_result = <<>>

\* parse_account_block(messages[0], event)
ParseAccount ==
    /\ f_pc = "parse"
    /\ f_args.command = "ACCOUNT_ID"
    /\ f_result' = parse_account_block(f_args.raw)
    /\ f_pc' = "parsed"
    /\ UNCHANGED <<f_args, cvars, hvars, qvars, rvars>>

\* parse_data_block(messages[1], event)
ParseData ==
    /\ f_pc = "parse"
    /\ f_args.command = "NEW_EVENT"
    /\ f_result' = parse_data_block(f_args.raw)
    /\ f_pc' = "parsed"
    /\ UNCHANGED <<f_args, cvars, hvars, qvars, rvars>>

ParseNext == ParseAccount \/ ParseData

SpecParse == ParseInit /\ [][ParseNext]_vars

(***************************************************************************)
(* notification.py: format_notification_text                               *)
(***************************************************************************)
\* the fields of the dataclass GalaxyEvent
GalaxyEventFields ==
    {"account_raw", "data_raw", "ascii_raw", "account_prefix", "account",
     "site_name", "message_type", "time", "user_id", "partition", "group",
     "value", "event_code", "zone", "ascii_prefix", "action_text"}

\* reading event.<name> raises AttributeError for a name that is no field
attribute_missing(name) == name \notin GalaxyEventFields

\* the truth value of an Optional[str]: None and '' are false
truthy(text) == text # None /\ text # <<>>

\* sub in text
contains(text, sub) ==
    \E i \in 0..(Len(text) - Len(sub)) :
        SubSeq(text, i + 1, i + Len(sub)) = sub

\* the literals of the f-strings, as code points:
\* "??", " ", " (Zone ", ")", " Event: ", " (", " User: ", " Zone: ",
\* " Partition: "
QuestionMarks == <<63, 63>>

Space == <<32>>

OpenZone == <<32, 40, 90, 111, 110, 101, 32>>

Close == <<41>>

EventLabel == <<32, 69, 118, 101, 110, 116, 58, 32>>

OpenParen == <<32, 40>>

UserLabel == <<32, 85, 115, 101, 114, 58, 32>>

ZoneLabel == <<32, 90, 111, 110, 101, 58, 32>>

PartitionLabel == <<32, 80, 97, 114, 116, 105, 116, 105, 111, 110, 58, 32>>

\* format_notification_text(event): the text returned, or raised when the
\* read of event.event_description raises AttributeError
format_notification_text(event) ==
    LET time == IF truthy(event.time) THEN event.time ELSE QuestionMarks
    IN  IF truthy(event.action_text)
        THEN [raised |-> FALSE,
              text |-> strip(
                  time \o Space \o event.action_text
                  \o (IF truthy(event.zone)
                         /\ ~contains(event.action_text, event.zone)
                      THEN OpenZone \o event.zone \o Close
                      ELSE <<>>))]
        ELSE IF truthy(event.event_code)
                /\ attribute_missing("event_description")
             THEN [raised |-> TRUE, text |-> <<>>]
             ELSE [raised |-> FALSE,
                   text |-> strip(
                       time
                       \o (IF truthy(event.event_code)
                           THEN EventLabel \o event.event_code \o OpenParen
                                \o event.event_description \o Close
                           ELSE <<>>)
                       \o (IF truthy(event.user_id)
                           THEN UserLabel \o event.user_id
                           ELSE <<>>)
                       \o (IF truthy(event.zone)
                           THEN ZoneLabel \o event.zone
                           ELSE <<>>)
                       \o (IF truthy(event.partition)
                           THEN PartitionLabel \o event.partition
                           ELSE <<>>))]

\* the events tried: every field is None or a text; "16", "A1", "CL", "7",
\* "1" and "2 " stand for the texts the parser can give
FormatEvents ==
    [time : {None, <<>>, <<49, 54>>},
     action_text : {None, <<>>, <<65, 49>>},
     event_code : {None, <<67, 76>>},
     user_id : {None, <<55>>},
     zone : {None, <<49>>},
     partition : {None, <<50, 32>>}]

FormatInit ==
    /\ CodecIdle
    /\ HandlerIdle
    /\ QueueIdle
    /\ RetryIdle
    /\ f_pc = "format"
    /\ \E event \in FormatEvents : f_args = [event |-> event]
    /\ f_result = <<>>

Format ==
    /\ f_pc = "format"
    /\ f_result' = format_notification_text(f_args.event)
    /\ f_pc' = "formatted"
    /\ UNCHANGED <<f_args, cvars, hvars, qvars, rvars>>

FormatNext == Format

SpecFormat == FormatInit /\ [][FormatNext]_vars

(***************************************************************************)
(* Chunking harness: the chunking code of handle_connection on one list    *)
(***************************************************************************)
\* the longest block list given to the chunking code
MaxBlocks == 4

\* the blocks tried: the records handle_connection collects
ChunkBlocks ==
    [command : {"ACCOUNT_ID", "NEW_EVENT", "ASCII"}, payload : {<<>>, <<49>>}]

BlockLists == UNION {[1..n -> ChunkBlocks] : n \in 0..MaxBlocks}

ChunkInit ==
    /\ CodecIdle
    /\ HandlerIdle
    /\ QueueIdle
    /\ RetryIdle
    /\ f_pc = "chunk"
    /\ \E blocks \in BlockLists : f_args = [valid_blocks |-> blocks]
    /\ f_result = <<>>

\* event_chunks = []; current_chunk = []; the loop; the last chunk
ChunkRun ==
    /\ f_pc = "chunk"
    /\ f_result' = assemble_chunks(f_args.valid_blocks)
    /\ f_pc' = "chunked"
    /\ UNCHANGED <<f_args, cvars, hvars, qvars, rvars>>

\* the same code run once more on the same list
ChunkAgain ==
    /\ f_pc = "chunked"
    /\ f_args' = [valid_blocks |-> f_args.valid_blocks, first |-> f_result]
    /\ f_result' = assemble_chunks(f_args.valid_blocks)
    /\ f_pc' = "chunked_again"
    /\ UNCHANGED <<cvars, hvars, qvars, rvars>>

ChunkNext == ChunkRun \/ ChunkAgain

SpecChunk == ChunkInit /\ [][ChunkNext]_vars

(***************************************************************************)
(* Retry delay harness                                                     *)
(***************************************************************************)
\* max_retry_time is accepted by the configuration from 1 to this
MAX_RETRY_TIME_LIMIT == 1000

RetryInit ==
    /\ CodecIdle
    /\ HandlerIdle
    /\ QueueIdle
    /\ FunIdle
    /\ r_pc = "init"
    /\ r_retry_count \in 1..MaxRetryCount
    /\ r_max_retry_time \in 1..MAX_RETRY_TIME_LIMIT
    /\ r_delay = 0

RetryDelay ==
    /\ r_pc = "init"
    /\ r_delay' = get_retry_delay(r_retry_count, r_max_retry_time)
    /\ r_pc' = "done"
    /\ UNCHANGED <<r_retry_count, r_max_retry_time, cvars, hvars, qvars,
                   fvars>>

RetryNext == RetryDelay

SpecRetry == RetryInit /\ [][RetryNext]_vars

(***************************************************************************)
(* Frame codec properties                                                  *)
(***************************************************************************)
WellFramed(d) ==
    /\ Len(d) >= 3
    /\ d[1] - 64 = Len(d) - 3
    /\ d[Len(d)] = ChecksumOf(SubSeq(d, 1, Len(d) - 1))

\* C1: validate_and_strip accepts data iff it has at least 3 bytes, its
\* first byte minus 0x40 is the number of bytes between the command byte and
\* the last byte, and its last byte is 0xFF XORed with all preceding bytes;
\* an accepted block yields its second byte as command and bytes 2..len-2 as
\* payload; a block that is too short or whose length disagrees is refused
\* for that reason, whatever its checksum (length is checked first).
C1_ValidateIff ==
    c_pc = "done" =>
        /\ c_result.valid <=> WellFramed(c_data)
        /\ c_result.valid =>
              /\ c_result.command_byte = c_data[2]
              /\ c_result.payload = SubSeq(c_data, 3, Len(c_data) - 1)
        /\ Len(c_data) < 3 => c_result.warning = "too short"
        /\ (Len(c_data) >= 3 /\ c_data[1] - 64 # Len(c_data) - 3)
              => c_result.warning = "length mismatch"
        /\ c_result.warning = "checksum mismatch"
              => (Len(c_data) >= 3 /\ c_data[1] - 64 = Len(c_data) - 3)

C1_Witness ==
    /\ c_pc = "done"
    /\ c_how = "raw"
    /\ c_result.valid
    /\ c_result.command_byte = 57

\* C2: for every command name of the table and every payload of length
\* 0..191, build_and_send writes a block (it does not raise), and
\* validate_and_strip accepts that block and returns the command's byte and
\* exactly the payload.
C2_RoundTrip ==
    Len(c_payload) <= 191 =>
        /\ c_pc # "error"
        /\ (c_pc = "done" /\ c_how = "intact") =>
              /\ c_result.valid
              /\ c_result.command_byte = COMMAND_BYTES[c_command]
              /\ c_result.payload = c_payload

C2_Witness ==
    /\ c_pc = "done"
    /\ c_how = "intact"
    /\ Len(c_payload) = 191
    /\ c_result.valid

(***************************************************************************)
(* Connection handler properties                                           *)
(***************************************************************************)
\* the reads whose handling (up to the write of the response) is over
HandledReads == IF pc = "validate" THEN Len(received) - 1 ELSE Len(received)

HandshakeMarker(d) == Len(d) >= 2 /\ d[1] = 5 /\ d[2] = 1

\* a read that carries a block the server answers
Answerable(d) == d # <<>> /\ (WellFramed(d) \/ ~HandshakeMarker(d))

IoFailed == exception \in {"read", "drain"}

\* C3: every handled read that carries a valid block has exactly one
\* ACKNOWLEDGE, every handled read that carries an invalid block without the
\* handshake marker has exactly one REJECT; the i-th response on the wire
\* answers the i-th read, and it is on the wire before the next read is
\* performed (no response is missing while the handler reads again).
C3_AnswerEveryBlock ==
    LET answered == {i \in 1..HandledReads : Answerable(received[i])}
    IN  /\ Len(writer) = Cardinality(answered)
        /\ \A i \in answered :
              /\ i <= Len(writer)
              /\ WellFramed(writer[i])
              /\ writer[i][2] = IF WellFramed(received[i]) THEN 56 ELSE 57

C3_Witness ==
    /\ pc = "read"
    /\ Len(received) = 2
    /\ WellFramed(received[1])
    /\ ~WellFramed(received[2])
    /\ Len(writer) = 2
    /\ writer[1][2] = 56
    /\ writer[2][2] = 57

\* C4 as claimed: the REJECT block sent for a block that fails validation is
\* the bytes 0x40 0x39 0xC6.
C4_RejectBytesAsClaimed ==
    \A i \in 1..HandledReads :
        (Answerable(received[i]) /\ ~WellFramed(received[i]))
            => (i <= Len(writer) /\ writer[i] = <<64, 57, 198>>)

\* C4 amended: the REJECT block sent for a block that fails validation is
\* the bytes 0x40 0x39 0x86 (0xFF ^ 0x40 ^ 0x39 = 0x86).
C4_RejectBytes ==
    \A i \in 1..HandledReads :
        (Answerable(received[i]) /\ ~WellFramed(received[i]))
            => (i <= Len(writer) /\ writer[i] = <<64, 57, 134>>)

C4_Witness ==
    /\ pc = "drain_reject"
    /\ Len(received) = 1
    /\ received[1] = <<65, 35, 49, 0>>
    /\ writer = << <<64, 57, 134>> >>

\* C5: handling a block that fails validation and does not start with 05 01
\* writes one REJECT and leaves valid_blocks as it was; once that write has
\* gone through (drain returned), the handler is reading again with the
\* socket open and valid_blocks still unchanged.
C5_RejectKeepsReading ==
    [][ /\ (pc = "validate" /\ data # <<>> /\ ~WellFramed(data)
               /\ ~HandshakeMarker(data))
           => /\ Len(writer') = Len(writer) + 1
              /\ writer'[Len(writer')][2] = 57
              /\ valid_blocks' = valid_blocks
              /\ pc' = "drain_reject"
              /\ ~writer_closed'
        /\ pc = "drain_reject"
           => /\ valid_blocks' = valid_blocks
              /\ writer' = writer
              /\ (pc' = "read" /\ ~writer_closed') \/ exception' = "drain"
      ]_vars

C5_Witness ==
    /\ pc = "read"
    /\ Len(received) = 2
    /\ WellFramed(received[1])
    /\ received[2] = <<64, 35>>
    /\ Len(valid_blocks) = 1
    /\ Len(writer) = 2
    /\ ~writer_closed

\* C6: a block that fails validation and starts with 05 01, at whatever
\* position on the connection, gets no response (the wire holds only the
\* responses to the reads before it), is the last read of the connection,
\* and the handler goes on to close the socket.
C6_HandshakeSilentClose ==
    \A i \in 1..Len(received) :
        (~WellFramed(received[i]) /\ HandshakeMarker(received[i])) =>
            /\ i = Len(received)
            /\ Len(writer) = i - 1
            /\ pc \in {"validate", "chunk", "process", "finally", "done"}
            /\ pc = "done" => writer_closed

C6_Witness ==
    /\ pc = "done"
    /\ writer_closed
    /\ Len(received) = 3
    /\ received[3] = <<5, 1, 0, 16>>
    /\ Len(writer) = 2

\* C7: no END_OF_DATA record is ever in valid_blocks or in an event chunk;
\* a valid END_OF_DATA block is answered with ACKNOWLEDGE and is the last
\* read of its connection.
C7_EndOfDataNotRecorded ==
    /\ \A j \in 1..Len(valid_blocks) : valid_blocks[j].command # "END_OF_DATA"
    /\ \A c \in 1..Len(event_chunks) : \A j \in 1..Len(event_chunks[c]) :
          event_chunks[c][j].command # "END_OF_DATA"
    /\ \A i \in 1..Len(received) :
          (WellFramed(received[i]) /\ received[i][2] = 48) =>
              /\ i = Len(received)
              /\ i <= HandledReads
                    => (Len(writer) = i /\ writer[i][2] = 56)

C7_Witness ==
    /\ pc = "done"
    /\ ~IoFailed
    /\ Len(received) = 2
    /\ received[2] = <<64, 48, 143>>
    /\ Len(writer) = 2
    /\ Len(valid_blocks) = 1
    /\ Len(event_chunks) = 1

(***************************************************************************)
(* Event assembly properties                                               *)
(***************************************************************************)
EventCommands == {"ACCOUNT_ID", "NEW_EVENT", "ASCII"}

AccountIdsIn(blocks) ==
    Cardinality({j \in 1..Len(blocks) : blocks[j].command = "ACCOUNT_ID"})

\* C8 as claimed: a valid block whose command is not in the table, or is in
\* the table but unused, is acknowledged and is in no event chunk.
C8_OtherBlocksNotInChunks ==
    /\ \A i \in 1..HandledReads :
          (WellFramed(received[i])
              /\ command_name_of(received[i][2]) \notin EventCommands)
            => (i <= Len(writer) /\ writer[i][2] = 56)
    /\ \A c \in 1..Len(event_chunks) : \A j \in 1..Len(event_chunks[c]) :
          event_chunks[c][j].command \in EventCommands

\* C9 as claimed: every event chunk begins with an ACCOUNT_ID block and
\* holds exactly one ACCOUNT_ID block, whatever blocks were collected.
C9_ChunkHasOneAccountFirst ==
    \A c \in 1..Len(event_chunks) :
        /\ event_chunks[c][1].command = "ACCOUNT_ID"
        /\ AccountIdsIn(event_chunks[c]) = 1

\* C10 as claimed: when the handler has finished (no read or write failed)
\* with a block list that starts with ACCOUNT_ID, there are as many chunks
\* as ACCOUNT_ID blocks, every chunk starts at an ACCOUNT_ID, and one
\* notification per chunk was submitted, in chunk order.
C10_OneNotificationPerChunk ==
    (/\ pc = "done"
     /\ ~IoFailed
     /\ valid_blocks # <<>>
     /\ valid_blocks[1].command = "ACCOUNT_ID")
        => /\ Len(event_chunks) = AccountIdsIn(valid_blocks)
           /\ \A c \in 1..Len(event_chunks) :
                 event_chunks[c][1].command = "ACCOUNT_ID"
           /\ submitted = event_chunks

C12_IdleReadTimesOut == [](pc = "read" => <>(pc # "read"))

(***************************************************************************)
(* Notification queue                                                      *)
(***************************************************************************)
Last(q) == q[Len(q)]

\* the step in which enqueue_notification returns
EnqueueReturns == p_pc = "put_nowait" /\ p_pc' = "idle"

\* the step in which the worker leaves the retry code
RetryCodeEnds == w_pc = "failed" /\ w_pc' # "failed"

\* C13: a call of enqueue_notification that found MAX_QUEUE_SIZE items, and
\* during which no other thread operated on the queue, returns with the
\* queue holding the items after the head, in their order, followed by the
\* new item (event, 0, 0): the length is MAX_QUEUE_SIZE again
C13_DropOldest ==
    [][(EnqueueReturns /\ p_clean /\ Len(p_before) = MAX_QUEUE_SIZE) =>
          /\ queue' = Append(Tail(p_before), Item(p_event, 0, 0))
          /\ Len(queue') = MAX_QUEUE_SIZE]_vars

\* capacity 2: J1, J2, J3 were enqueued before the worker took anything and
\* the queue holds exactly J2, J3
C13_Witness ==
    /\ n_enqueued = 3
    /\ p_pc = "idle"
    /\ w_pc = "loop"
    /\ MAX_QUEUE_SIZE = 2
    /\ Len(queue) = 2
    /\ queue[1].event.id = 2
    /\ queue[2].event.id = 3

\* C14: the queue never holds more than MAX_QUEUE_SIZE items, with the
\* producer, the worker's put-back and retry puts and stop() interleaved
C14_QueueBounded == Len(queue) <= MAX_QUEUE_SIZE

\* the queue is full, stop() has put its item and returned, and the worker
\* is about to put a failed item back
C14_Witness ==
    /\ Len(queue) = MAX_QUEUE_SIZE
    /\ s_pc = "returned"
    /\ w_pc = "failed"
    /\ p_pc = "put_nowait"

\* C15: enqueue_notification never waits: a call can begin in every state,
\* and a call that has begun always has its next step enabled, whatever the
\* queue holds and wherever the worker is
C15_EnqueueNeverBlocks ==
    /\ (p_pc = "idle" /\ n_enqueued < MaxEvents) =>
          ENABLED EnqueueCall(EventKinds)
    /\ p_pc = "get_nowait" => ENABLED EnqueueGet
    /\ p_pc = "put_nowait" => ENABLED EnqueuePut

\* the call is about to put while the queue is full again (the worker put
\* a failed item back after the call's test)
C15_Witness ==
    /\ p_pc = "put_nowait"
    /\ Len(queue) = MAX_QUEUE_SIZE
    /\ w_pc = "loop"

RECURSIVE Pow2(_)
Pow2(n) == IF n = 0 THEN 1 ELSE 2 * Pow2(n - 1)

\* C16: get_retry_delay(k) is 60 * 2^(k-1) seconds when that is at most
\* max_retry_time * 60, and max_retry_time * 60 otherwise
C16_RetryDelay ==
    r_pc = "done" =>
        LET doubled == 60 * Pow2(r_retry_count - 1)
            clamp == r_max_retry_time * 60
        IN  /\ doubled <= clamp => r_delay = doubled
            /\ doubled > clamp => r_delay = clamp

\* the third failure with max_retry_time 30 waits 240 s
C16_Witness ==
    /\ r_pc = "done"
    /\ r_retry_count = 3
    /\ r_max_retry_time = 30
    /\ r_delay = 240

\* C17: an item that is in the queue has failed retry_count times, and the
\* item the retry code puts has the retry_count of the failed item plus
\* one; with max_retries > 0 no event is attempted more than
\* max_retries + 1 times and the item that failed for the
\* (max_retries + 1)-th time is not put back; with max_retries = 0 the
\* failed item is put back whenever the queue has room
C17_RetryCounting ==
    /\ [](/\ \A i \in 1..Len(queue) :
                queue[i].event # NoneEvent =>
                    queue[i].retry_count = attempts[queue[i].event.id]
          /\ max_retries > 0 =>
                \A id \in EventIds : attempts[id] <= max_retries + 1)
    /\ [][RetryCodeEnds =>
            /\ Len(queue') > Len(queue) =>
                  /\ Last(queue').event = w_job.event
                  /\ Last(queue').retry_count = w_job.retry_count + 1
            /\ (max_retries > 0 /\ w_job.retry_count + 1 > max_retries) =>
                  queue' = queue
            /\ (max_retries = 0 /\ Len(queue) < MAX_QUEUE_SIZE) =>
                  Len(queue') = Len(queue) + 1]_vars

\* an event has failed max_retries + 1 times and the worker is about to
\* give it up
C17_Witness ==
    /\ max_retries > 0
    /\ w_pc = "failed"
    /\ w_job.retry_count = max_retries
    /\ attempts[w_job.event.id] = max_retries + 1

\* C18: when the request posted for an item failed and retries are left,
\* the retry code ends with the failed item at the tail of the queue, with
\* its new next_attempt_time, also when the queue was full
C18_FailedJobRequeued ==
    [][(/\ RetryCodeEnds
        /\ dispatch_plan(w_job.event, ntfy_topics) = "post"
        /\ retries_left(w_job.retry_count + 1, max_retries)) =>
          /\ queue' # <<>>
          /\ Last(queue') =
                Item(w_job.event, w_job.retry_count + 1,
                     now + get_retry_delay(w_job.retry_count + 1,
                                           max_retry_time_minutes))]_vars

\* C19: a dispatch is never attempted before the item's next_attempt_time;
\* an item taken before it is due is held for the put-back, and the
\* put-back appends that very item and attempts no dispatch
C19_NoEarlyDispatch ==
    /\ [](w_pc = "dispatch" => now >= w_job.next_attempt_time)
    /\ [][/\ attempts' # attempts => now >= w_job.next_attempt_time
          /\ (/\ w_pc = "get"
              /\ w_pc' # "get"
              /\ queue # <<>>
              /\ Head(queue).event # NoneEvent
              /\ now < Head(queue).next_attempt_time) =>
                 /\ w_pc' = "put_back"
                 /\ w_job' = Head(queue)
                 /\ attempts' = attempts
          /\ (w_pc = "put_back" /\ w_pc' # "put_back") =>
                 /\ queue' = Append(queue, w_job)
                 /\ attempts' = attempts
                 /\ posted' = posted]_vars

\* a failed item was taken before it was due and is back at the tail as it
\* was
C19_Witness ==
    /\ w_pc = "sleep"
    /\ queue # <<>>
    /\ Last(queue).retry_count = 1
    /\ Last(queue).next_attempt_time = 60
    /\ now = 0
    /\ attempts[Last(queue).event.id] = 1

\* no enabled entry for the account and no enabled "default" entry
HasNoUsableTopic(event) ==
    /\ ~(event.account \in DOMAIN ntfy_topics
         /\ ntfy_topics[event.account].enabled)
    /\ ~("default" \in DOMAIN ntfy_topics /\ ntfy_topics["default"].enabled)

\* C20: an event without usable topic is never put back into the queue
\* after the worker took it, and no request is ever posted for it
C20_NoTopicNotRetried ==
    /\ \A i \in 1..Len(queue) :
          HasNoUsableTopic(queue[i].event) => queue[i].retry_count = 0
    /\ \A id \in EventIds :
          (w_job.event.id = id /\ HasNoUsableTopic(w_job.event)) =>
              posted[id] = 0

\* C21: an event without event_code is never posted and never scheduled
\* for retry: no item of the queue holding such an event has been retried
C21_NoEventCodeReleased ==
    /\ \A i \in 1..Len(queue) :
          (queue[i].event # NoneEvent /\ ~queue[i].event.event_code) =>
              queue[i].retry_count = 0
    /\ \A id \in EventIds :
          (w_job.event.id = id /\ ~w_job.event.event_code) => posted[id] = 0

\* C24: the worker thread is at its end only after shutdown was requested,
\* never because of the job it was dispatching
C24_WorkerSurvivesJob ==
    w_pc \in {"stopped", "crashed"} => shutdown_event

\* the item is due at the time t
Due(item, t) == ~not_due(t, item.next_attempt_time)

\* C25: the queue keeps the order of placement, every step that changes it
\* takes its oldest item or places one item behind all the others, and the
\* job the worker goes on to attempt is the oldest one of the queue: no
\* job placed later is attempted while an earlier one is in the queue
C25_DueJobsInOrder ==
    [][/\ queue' # queue =>
            \/ queue # <<>> /\ queue' = Tail(queue)
            \/ \E item \in {Last(queue')} : queue' = Append(queue, item)
       /\ (w_pc = "get" /\ w_pc' \in {"dispatch", "put_back"}) =>
            /\ w_job' = Head(queue)
            /\ queue' = Tail(queue)
            /\ (w_pc' = "dispatch") = Due(w_job', now)
       /\ (w_pc = "dispatch" /\ attempts' # attempts) =>
            /\ Due(w_job, now)
            /\ attempts' = [attempts EXCEPT ![w_job.event.id] = @ + 1]]_vars

\* the worker is about to attempt a due job taken from the head while a
\* due job placed later, after a failed attempt, waits in the queue
C25_Witness ==
    /\ w_pc = "dispatch"
    /\ Due(w_job, now)
    /\ queue # <<>>
    /\ \A i \in 1..Len(queue) : Due(queue[i], now)
    /\ \E i \in 1..Len(queue) : queue[i].retry_count >= 1

\* C27: a call of enqueue_notification made after stop() leaves the queue
\* as it was: its last step adds no job
C27_NoJobAfterStop ==
    [][(EnqueueReturns /\ p_after_stop) =>
          /\ Len(queue') <= Len(queue)
          /\ \A i \in 1..Len(queue') : queue'[i].event # p_event]_vars

\* C26: once stop() has been called, the worker thread ends and stop()
\* returns
C26_StopTerminates ==
    (s_pc # "idle") ~> (s_pc = "returned" /\ w_pc = "stopped")

\* the topic the routing rule names for the account: its own entry if
\* that is enabled, else the enabled "default" entry, else none
SelectedTopic(account, topics) ==
    IF account \in DOMAIN topics /\ topics[account].enabled
    THEN topics[account]
    ELSE IF "default" \in DOMAIN topics /\ topics["default"].enabled
         THEN topics["default"]
         ELSE NoTopic

\* C22: for every account and routing table, a complete event is sent to
\* the url of the topic the routing rule names, and is skipped exactly
\* when the rule names none
C22_TopicSelection ==
    (/\ f_pc = "dispatched"
     /\ f_args.event.event_code
     /\ f_args.event.action_text) =>
        LET topic == SelectedTopic(f_args.event.account, f_args.ntfy_topics)
        IN  /\ f_result.requested = topic.present
            /\ f_result.ntfy_url = topic.url

\* C23: a request that was made counts as success exactly when it was
\* answered with a 2xx status
C23_SuccessIs2xx ==
    (f_pc = "dispatched" /\ f_result.requested) =>
        (f_result.returned =
            (/\ f_result.outcome.kind = "response"
             /\ 200 <= f_result.outcome.status_code
             /\ f_result.outcome.status_code < 300))

\* C28: a text of ASCII bytes only is decoded to the text itself with the
\* whitespace at its ends removed, whatever the character map holds
C28_AsciiTextUnchanged ==
    (/\ f_pc = "decoded"
     /\ \A i \in 1..Len(f_args.data) : f_args.data[i] < 128) =>
        f_result = strip(decode_iso_8859_1(f_args.data))

\* the match of ^([A-Z]{2})(\d{3,4})? at the start of a section: exactly two
\* upper-case letters, then three or four digits if they follow at once
ec_match_two_letters(last_section) ==
    LET letters == leading(last_section, UpperCase, 2)
        rest    == SubSeq(last_section, letters + 1, Len(last_section))
        digits  == leading(rest, Digits, 4)
    IN  IF letters < 2
        THEN [matched |-> FALSE, group1 |-> None, group2 |-> None]
        ELSE [matched |-> TRUE,
              group1 |-> SubSeq(last_section, 1, letters),
              group2 |-> IF digits >= 3
                         THEN SubSeq(rest, 1, digits)
                         ELSE None]

\* C29: the event_code of a NEW_EVENT payload is the two upper-case
\* letters that start its last section, the zone is the three or four
\* digits right after these two letters, and a last section that does not
\* start with two upper-case letters leaves event_code unset
C29_EventCodeTwoLetters ==
    (f_pc = "parsed" /\ f_args.command = "NEW_EVENT") =>
        LET last_section ==
                last_section_of(decode_utf_8_ignore(f_args.payload))
            m == ec_match_two_letters(last_section)
        IN  /\ f_result.event_code = m.group1
            /\ f_result.zone = m.group2

\* C30: the account of an ACCOUNT_ID block is its whole payload, byte for
\* byte
C30_AccountIsWholePayload ==
    (f_pc = "parsed" /\ f_args.command = "ACCOUNT_ID") =>
        f_result.account = f_args.payload

\* the text of a field that is present, behind its label, or nothing
Labelled(label, field) == IF truthy(field) THEN label \o field ELSE <<>>

\* C31: for an event without action_text a body is returned; it has no
\* whitespace at its ends, it starts with the time or "??", and without
\* event_code it is the time followed by the present fields among User,
\* Zone and Partition in that order
C31_BodyWithoutActionText ==
    (f_pc = "formatted" /\ ~truthy(f_args.event.action_text)) =>
        LET event == f_args.event
            time  == IF truthy(event.time) THEN event.time ELSE QuestionMarks
        IN  /\ ~f_result.raised
            /\ f_result.text = strip(f_result.text)
            /\ startswith(f_result.text, time)
            /\ ~truthy(event.event_code) =>
                  f_result.text =
                      strip(time \o Labelled(UserLabel, event.user_id)
                                 \o Labelled(ZoneLabel, event.zone)
                                 \o Labelled(PartitionLabel, event.partition))

\* the last read of the connection gave an encrypted-handshake block
HandshakeReceived ==
    /\ received # <<>>
    /\ pc \notin {"read", "validate"}
    /\ ~validate_and_strip(Last(received)).valid
    /\ is_encrypted_handshake(Last(received))

\* C32: after an encrypted-handshake block the handler never assembles
\* chunks, never processes one and submits nothing
C32_HandshakeSkipsProcessing ==
    HandshakeReceived =>
        /\ pc # "process"
        /\ event_chunks = <<>>
        /\ submitted = <<>>

\* the peer closed the connection: the last read returned no bytes
PeerClosed == received # <<>> /\ Last(received) = <<>>

\* C33: when the handler has finished after the peer closed the connection
\* before END_OF_DATA, the collected blocks were assembled into chunks and
\* every chunk was parsed and submitted, in order
C33_PeerCloseStillProcessed ==
    (/\ pc = "done"
     /\ PeerClosed
     /\ ~IoFailed
     /\ command_name # "END_OF_DATA"
     /\ valid_blocks # <<>>) =>
        /\ event_chunks = assemble_chunks(valid_blocks)
        /\ submitted = event_chunks

\* the block is in one of the chunks
InSomeChunk(block, chunks) ==
    \E c \in 1..Len(chunks) : \E k \in 1..Len(chunks[c]) : chunks[c][k] = block

\* C34: when the handler has finished after a read failed, every block it
\* had acknowledged before is in a chunk that was submitted
C34_AcknowledgedBlocksProcessed ==
    (pc = "done" /\ exception = "read") =>
        \A i \in 1..Len(valid_blocks) :
            InSomeChunk(valid_blocks[i], submitted)

\* C35: when a call of enqueue_notification returns, its event is in the
\* queue, whatever the worker did to the queue during the call
C35_NewEventNotLost ==
    [][EnqueueReturns =>
          \E i \in 1..Len(queue') : queue'[i] = Item(p_event, 0, 0)]_vars

\* C36: the worker that holds a job to put back finds a free slot, unless
\* a call of enqueue_notification is about to take an item out
C36_PutBackCompletes ==
    (w_pc = "put_back" /\ p_pc # "get_nowait") => ~full(queue)

\* the worker thread is alive and holds a job it has taken from the queue
JobInFlight ==
    /\ w_pc \in {"dispatch", "put_back", "failed"}
    /\ w_job # NoJob

\* C37: with max_retries > 0 no job stays in flight for ever: the worker
\* that holds a job has its next step, or a running call of
\* enqueue_notification is about to free a slot of the queue for it
C37_NoJobStuck ==
    (max_retries > 0 /\ JobInFlight) =>
        (ENABLED WorkerNext \/ p_pc = "get_nowait")

\* the chunks, one after the other, as one list
RECURSIVE Concat(_)
Concat(chunks) ==
    IF chunks = <<>> THEN <<>> ELSE Head(chunks) \o Concat(Tail(chunks))

\* C38: the chunks of a block list, one after the other, are the list
\* itself, no chunk is empty, and a second run on the same list gives the
\* chunks of the first run
C38_ChunkingKeepsBlocks ==
    /\ f_pc \in {"chunked", "chunked_again"} =>
          /\ Concat(f_result) = f_args.valid_blocks
          /\ \A c \in 1..Len(f_result) : f_result[c] # <<>>
    /\ f_pc = "chunked_again" => f_result = f_args.first

\* a list of four blocks that starts without ACCOUNT_ID was chunked twice
\* into a leading chunk and two chunks that start at an ACCOUNT_ID
C38_Witness ==
    /\ f_pc = "chunked_again"
    /\ Len(f_args.valid_blocks) = 4
    /\ f_args.valid_blocks[1].command # "ACCOUNT_ID"
    /\ Len(f_result) = 3
    /\ \E c \in 1..Len(f_result) : Len(f_result[c]) = 2

\* C39: a block that validate_and_strip accepts, with the value of exactly
\* one of its bytes changed, is refused: a changed length byte for its
\* length, any other changed byte for its checksum
C39_OneByteChangeRejected ==
    (c_pc = "done" /\ c_how = "corrupt") =>
        /\ validate_and_strip(c_sent).valid
        /\ Len(c_data) = Len(c_sent)
        /\ Cardinality({i \in 1..Len(c_sent) : c_data[i] # c_sent[i]}) = 1
        /\ ~c_result.valid
        /\ c_result.warning =
              IF c_data[1] # c_sent[1]
              THEN "length mismatch"
              ELSE "checksum mismatch"

\* a block with a payload arrived with another command byte and was refused
C39_Witness ==
    /\ c_pc = "done"
    /\ c_how = "corrupt"
    /\ Len(c_payload) >= 1
    /\ c_data[2] # c_sent[2]
    /\ ~c_result.valid

\* data begins with the bytes 0x05 0x01
StartsWithMarker(block) ==
    Len(block) >= 2 /\ block[1] = 5 /\ block[2] = 1

\* C40: data that begins with 0x05 0x01 never passes validate_and_strip,
\* and the handler's step on it writes no answer, records no block and
\* leaves the read loop
C40_MarkerNeverAccepted ==
    [][(pc = "validate" /\ StartsWithMarker(data)) =>
          /\ ~validate_and_strip(data).valid
          /\ writer' = writer
          /\ valid_blocks' = valid_blocks
          /\ pc' = "chunk"]_vars

\* a block was accepted, then the marker arrived with a right checksum
\* behind it, and the handler left the loop with one answer written
C40_Witness ==
    /\ pc = "chunk"
    /\ Len(received) = 2
    /\ received[2] = <<5, 1, 251>>
    /\ Len(valid_blocks) = 1
    /\ Len(writer) = 1

=============================================================================
